---- MODULE Spec2Model ----
(***************************************************************************)
(* A model of models/models.py: the LinearRegression and                  *)
(* LogisticRegression estimators and the helpers softmax and one_hot.     *)
(*                                                                         *)
(* Numbers are exact rationals <<n, d>> with d > 0 in lowest terms; a     *)
(* matrix is a sequence of rows, each a sequence of rationals (a numpy    *)
(* array of shape (Len(M), Len(M[1]))).  Indices are 1-based here and     *)
(* 0-based in the source.                                                  *)
(***************************************************************************)
EXTENDS Integers, Sequences, FiniteSets, TLC

VARIABLES
    cls,        \* the class of the instance
    add_bias,   \* self.add_bias
    w,          \* self.w: Unset (no such attribute), NoneVal or Arr(matrix)
    call,       \* the call that returned or raised last
    hist,       \* whether fit was ever called, and ever returned
    inp,        \* the arguments drawn for the calls of a run, where it draws them
    thr         \* the frames of the two threads, where two threads run

vars == <<cls, add_bias, w, call, hist, inp, thr>>

(***************************************************************************)
(* Bounds of the model.                                                    *)
(***************************************************************************)
MaxRows == 3
MaxVal == 3
MaxW == 2
MaxStep == 2

(***************************************************************************)
(* Rational arithmetic.                                                    *)
(***************************************************************************)
Abs(n) == IF n < 0 THEN -n ELSE n

RECURSIVE GCD(_, _)
GCD(a, b) == IF b = 0 THEN a ELSE GCD(b, a % b)

Rat(n, d) ==
    LET g == GCD(Abs(n), Abs(d))
        s == IF d < 0 THEN -1 ELSE 1
    IN  <<(s * n) \div g, (s * d) \div g>>

R(k) == <<k, 1>>
RAdd(a, b) == Rat(a[1] * b[2] + b[1] * a[2], a[2] * b[2])
RSub(a, b) == Rat(a[1] * b[2] - b[1] * a[2], a[2] * b[2])
RMul(a, b) == Rat(a[1] * b[1], a[2] * b[2])
RDiv(a, b) == Rat(a[1] * b[2], a[2] * b[1])
\* a > b; two fractions over one denominator are compared by numerator
RGreater(a, b) ==
    IF a[2] = b[2] THEN a[1] > b[1] ELSE a[1] * b[2] > b[1] * a[2]

RECURSIVE RSumTo(_, _)
RSumTo(f, n) == IF n = 0 THEN R(0) ELSE RAdd(RSumTo(f, n - 1), f[n])
\* the sum of the entries of a sequence of rationals
RSum(f) == RSumTo(f, Len(f))

(***************************************************************************)
(* numpy primitives on matrices.                                           *)
(***************************************************************************)
Rows(M) == Len(M)
Cols(M) == Len(M[1])
IntMat(M) == [i \in 1..Rows(M) |-> [j \in 1..Cols(M) |-> R(M[i][j])]]

\* np.dot(A, B) for two 2-D arrays of matching inner dimension
dot(A, B) ==
    [i \in 1..Rows(A) |->
        [j \in 1..Cols(B) |->
            RSum([k \in 1..Cols(A) |-> RMul(A[i][k], B[k][j])])]]
\* whether np.dot(A, B) is defined (it raises ValueError otherwise)
dot_ok(A, B) == Cols(A) = Rows(B)

transpose(A) == [j \in 1..Cols(A) |-> [i \in 1..Rows(A) |-> A[i][j]]]
zeros(r, c) == [i \in 1..r |-> [j \in 1..c |-> R(0)]]
MSub(A, B) == [i \in 1..Rows(A) |-> [j \in 1..Cols(A) |-> RSub(A[i][j], B[i][j])]]
MScale(A, q) == [i \in 1..Rows(A) |-> [j \in 1..Cols(A) |-> RMul(A[i][j], q)]]
\* np.sum(M ** 2)
SumSq(M) ==
    RSum([i \in 1..Rows(M) |->
            RSum([j \in 1..Cols(M) |-> RMul(M[i][j], M[i][j])])])

\* the sequence s without its k-th element
Drop(s, k) == [i \in 1..(Len(s) - 1) |-> IF i < k THEN s[i] ELSE s[i + 1]]
\* the matrix M without row i and column j
Minor(M, i, j) == [r \in 1..(Rows(M) - 1) |-> Drop(Drop(M, i)[r], j)]

RECURSIVE Det(_)
Det(M) ==
    IF Rows(M) = 1 THEN M[1][1]
    ELSE RSum([j \in 1..Rows(M) |->
                 RMul(RMul(R(IF j % 2 = 1 THEN 1 ELSE -1), M[1][j]),
                      Det(Minor(M, 1, j)))])

Singular(M) == Det(M) = R(0)

\* np.linalg.inv(M) of a square non-singular M (LinAlgError when Singular(M))
inv(M) ==
    LET d == Det(M)
    IN  IF Rows(M) = 1 THEN <<<<RDiv(R(1), d)>>>>
        ELSE [i \in 1..Rows(M) |->
                [j \in 1..Rows(M) |->
                    RDiv(RMul(R(IF (i + j) % 2 = 0 THEN 1 ELSE -1),
                              Det(Minor(M, j, i))),
                         d)]]

\* A = np.copy(X); if add_bias: the column of ones is put in front
Augment(X, bias) ==
    IF bias THEN [i \in 1..Rows(X) |-> <<R(1)>> \o X[i]] ELSE X

(***************************************************************************)
(* LinearRegression: the pure methods.                                     *)
(***************************************************************************)
cost_fn(X, y, w_) == RMul(<<1, 2>>, SumSq(MSub(y, dot(X, w_))))

gradient(X, y, w_) ==
    LET y_hat == dot(X, w_)
    IN  MScale(dot(transpose(X), MSub(y_hat, y)), <<1, Rows(X)>>)

\* the inverse left out of the normal equations
analytic_fit_no_inverse(X, y) ==
    LET XTX == dot(transpose(X), X)
        XTX_XT == dot(XTX, transpose(X))
    IN  dot(XTX_XT, y)

analytic_fit(X, y) ==
    LET XTX == dot(transpose(X), X)
        XTX_inv == inv(XTX)
        XTX_inv_XT == dot(XTX_inv, transpose(X))
    IN  dot(XTX_inv_XT, y)

(***************************************************************************)
(* The module functions softmax and one_hot.                               *)
(***************************************************************************)
\* eps = 1e-8, as its reciprocal
EpsInv == 100000000

\* np.exp at a non-positive multiple h/2 of one half, in thousandths
exp_fx(h) ==
    CASE h = 0 -> 1000 [] h = -1 -> 607 [] h = -2 -> 368 [] h = -3 -> 223
      [] h = -4 -> 135 [] h = -5 -> 82 [] h = -6 -> 50 [] h = -7 -> 30
      [] h = -8 -> 18 [] h = -9 -> 11 [] h = -10 -> 7 [] h = -11 -> 4
      [] h = -12 -> 2 [] h = -13 -> 2 [] h = -14 -> 1 [] h = -15 -> 1
      [] OTHER -> 0

RECURSIVE MaxFrom(_, _, _)
MaxFrom(row, i, best) ==
    IF i > Len(row) THEN best
    ELSE MaxFrom(row, i + 1, IF RGreater(row[i], best) THEN row[i] ELSE best)
\* np.max of one row
RowMax(row) == MaxFrom(row, 2, row[1])

\* one row of softmax: exp(x - max) / (sum(exp(x - max)) + eps), every entry
\* of the row kept over the row's one denominator
softmax_row(row) ==
    LET m == RowMax(row)
        half(x) == LET d == RSub(x, m) IN (2 * d[1]) \div d[2]
        e == [j \in 1..Len(row) |-> exp_fx(half(row[j]))]
        RECURSIVE S(_)
        S(n) == IF n = 0 THEN 0 ELSE S(n - 1) + e[n]
        k == EpsInv \div 1000
    IN  [j \in 1..Len(row) |-> <<e[j] * k, S(Len(row)) * k + 1>>]

softmax(X) == [i \in 1..Rows(X) |-> softmax_row(X[i])]

\* a scan that keeps the last largest entry
RECURSIVE argmax_from_last(_, _, _)
argmax_from_last(row, i, best) ==
    IF i > Len(row) THEN best
    ELSE argmax_from_last(row, i + 1,
                          IF RGreater(row[best], row[i]) THEN best ELSE i)

\* numpy's argmax over one row: a scan that keeps the first largest entry
RECURSIVE argmax_from(_, _, _)
argmax_from(row, i, best) ==
    IF i > Len(row) THEN best
    ELSE argmax_from(row, i + 1, IF RGreater(row[i], row[best]) THEN i ELSE best)
argmax(row) == argmax_from(row, 2, 1)

one_hot(y) ==
    LET pred_labels == [i \in 1..Rows(y) |-> argmax(y[i])]
    IN  [i \in 1..Rows(y) |->
            [j \in 1..Cols(y) |-> IF j = pred_labels[i] THEN 1 ELSE 0]]

(***************************************************************************)
(* Values of self.w and of an optional argument.                           *)
(***************************************************************************)
Unset == [tag |-> "unset"]
NoneVal == [tag |-> "None"]
Arr(M) == [tag |-> "array", val |-> M]
IsArr(v) == v.tag = "array"

(***************************************************************************)
(* The optimizer collaborator: a class is called with the keyword          *)
(* arguments, and run(gradient_fn, A, y, w0) returns the final weights     *)
(* and leaves the snapshots in w_history.  What a run returns is the       *)
(* optimizer's business: here any of a few matrices of w0's shape.         *)
(***************************************************************************)
OptimizerClasses == {"GradientDescent", "RaisesInInit", "RaisesInRun"}
Kwargs == {[lr |-> 1]}

OptW(w0) ==
    {w0,
     [i \in 1..Rows(w0) |-> [j \in 1..Cols(w0) |-> R(i + j - 1)]]}
OptRuns(w0) ==
    UNION {{[w_final |-> wf, w_history |-> <<w0, wf>>],
            [w_final |-> wf, w_history |-> <<w0, w0, wf>>]} : wf \in OptW(w0)}

NoLog == [init |-> <<>>, run |-> <<>>, ret |-> <<>>, optimizer |-> [tag |-> "None"]]
NoCall ==
    [op |-> "none", args |-> <<>>, outcome |-> "none", result |-> <<>>,
     w_before |-> NoneVal, log |-> NoLog]
Returned(op, args, result, before, log) ==
    [op |-> op, args |-> args, outcome |-> "ok", result |-> result,
     w_before |-> before, log |-> log]
Raised(op, args, error, before, log) ==
    [op |-> op, args |-> args, outcome |-> error, result |-> <<>>,
     w_before |-> before, log |-> log]

(***************************************************************************)
(* LinearRegression.fit and LinearRegression.predict.                      *)
(***************************************************************************)
\* the assertion left out
optimizer_not_checked(optimizer_class) == TRUE

\* line 54: assert optimizer_class is not None
optimizer_given(optimizer_class) == optimizer_class # "None"

\* line 56: self.w = np.zeros((A.shape[1], 1))
LinearRegression_w0(A) == Arr(zeros(Cols(A), 1))

\* line 58: the arguments of optimizer.run
RunArgs(grad, A, y, w0) == [gradient_fn |-> grad, A |-> A, y |-> y, w0 |-> w0]

\* line 57: the optimizer as its constructor leaves it
NewOptimizer == [w_history |-> <<>>]

\* line 60: return optimizer.w_history
fit_return(optimizer) == optimizer.w_history

\* lines 56-60, and the same statements of LogisticRegression.fit, lines 121-125
GradientFit(args, grad, A, w0) ==
    LET oc == args.optimizer_class
        ctor == [init |-> <<args.kwargs>>, run |-> <<>>, ret |-> <<>>,
                 optimizer |-> NewOptimizer]
        ran == [ctor EXCEPT !.run = <<RunArgs(grad, A, args.y, w0.val)>>]
    IN  IF oc = "None"
        THEN /\ w' = w0
             /\ call' = Raised("fit", args, "TypeError", w, NoLog)
        ELSE IF oc = "RaisesInInit"
        THEN /\ w' = w0
             /\ call' = Raised("fit", args, "OptimizerError", w,
                               [ctor EXCEPT !.optimizer = NoneVal])
        ELSE IF oc = "RaisesInRun"
        THEN /\ w' = w0
             /\ call' = Raised("fit", args, "OptimizerError", w, ran)
        ELSE \E r \in OptRuns(w0.val) :
                LET optimizer == [w_history |-> r.w_history]
                IN  /\ w' = Arr(r.w_final)
                    /\ call' = Returned("fit", args, fit_return(optimizer), w,
                                        [ran EXCEPT !.ret = <<r.w_final>>,
                                                    !.optimizer = optimizer])

LinearRegression_fit(X, y, analytic, optimizer_class, kwargs) ==
    LET A == Augment(X, add_bias)
        args == [X |-> X, y |-> y, analytic_fit |-> analytic,
                 optimizer_class |-> optimizer_class, kwargs |-> kwargs]
    IN  /\ cls = "LinearRegression"
        /\ IF analytic
           THEN IF Singular(dot(transpose(A), A))
                THEN /\ w' = w
                     /\ call' = Raised("fit", args, "LinAlgError", w, NoLog)
                ELSE IF ~dot_ok(transpose(A), y)
                THEN /\ w' = w
                     /\ call' = Raised("fit", args, "ValueError", w, NoLog)
                ELSE /\ w' = Arr(analytic_fit(A, y))
                     /\ call' = Returned("fit", args, w'.val, w, NoLog)
           ELSE IF ~optimizer_given(optimizer_class)
                THEN /\ w' = w
                     /\ call' = Raised("fit", args, "AssertionError", w, NoLog)
                ELSE GradientFit(args, "LinearRegression.gradient", A,
                                 LinearRegression_w0(A))
        /\ hist' = [fit_called |-> TRUE,
                    fit_ok |-> hist.fit_ok \/ call'.outcome = "ok"]
        /\ UNCHANGED <<cls, add_bias, inp, thr>>

\* line 63: assert self.w is not None
predict_precondition(self_w) == self_w # NoneVal

\* the argument w ignored
weights_stored(self_w, w_arg) == self_w

\* lines 68-71: the weights the prediction is computed from
weights_used(self_w, w_arg) == IF w_arg # NoneVal THEN w_arg ELSE self_w

\* predict keeping the weights it used in self.w
LinearRegression_predict_storing(X, w_arg) ==
    LET A == Augment(X, add_bias)
        args == [X |-> X, w |-> w_arg]
        used == weights_used(w, w_arg)
    IN  /\ cls = "LinearRegression"
        /\ IF ~predict_precondition(w)
           THEN /\ call' = Raised("predict", args, "AssertionError", w, NoLog)
                /\ w' = w
           ELSE IF ~dot_ok(A, used.val)
           THEN /\ call' = Raised("predict", args, "ValueError", w, NoLog)
                /\ w' = used
           ELSE /\ call' = Returned("predict", args, dot(A, used.val), w, NoLog)
                /\ w' = used
        /\ UNCHANGED <<cls, add_bias, hist, inp, thr>>

LinearRegression_predict(X, w_arg) ==
    LET A == Augment(X, add_bias)
        args == [X |-> X, w |-> w_arg]
        used == weights_used(w, w_arg)
    IN  /\ cls = "LinearRegression"
        /\ IF ~predict_precondition(w)
           THEN call' = Raised("predict", args, "AssertionError", w, NoLog)
           ELSE IF ~dot_ok(A, used.val)
           THEN call' = Raised("predict", args, "ValueError", w, NoLog)
           ELSE call' = Returned("predict", args, dot(A, used.val), w, NoLog)
        /\ UNCHANGED <<cls, add_bias, w, hist, inp, thr>>

(***************************************************************************)
(* LogisticRegression.fit and LogisticRegression.predict.                  *)
(***************************************************************************)
\* the zeros of LinearRegression.fit, one column
LogisticRegression_w0_column(A, y) == Arr(zeros(Cols(A), 1))

\* line 121: self.w = np.zeros((A.shape[1], y.shape[1]))
LogisticRegression_w0(A, y) == Arr(zeros(Cols(A), Cols(y)))

LogisticRegression_fit(X, y, optimizer_class, kwargs) ==
    LET A == Augment(X, add_bias)
        args == [X |-> X, y |-> y, optimizer_class |-> optimizer_class,
                 kwargs |-> kwargs]
    IN  /\ cls = "LogisticRegression"
        /\ GradientFit(args, "LogisticRegression.gradient", A,
                       LogisticRegression_w0(A, y))
        /\ hist' = [fit_called |-> TRUE,
                    fit_ok |-> hist.fit_ok \/ call'.outcome = "ok"]
        /\ UNCHANGED <<cls, add_bias, inp, thr>>

\* lines 132-135: one_hot(softmax(np.dot(A, w)))
y_preds(A, w_used) == one_hot(softmax(dot(A, w_used)))

LogisticRegression_predict(X, w_arg) ==
    LET A == Augment(X, add_bias)
        args == [X |-> X, w |-> w_arg]
        used == weights_used(w, w_arg)
    IN  /\ cls = "LogisticRegression"
        /\ IF used = Unset
           THEN call' = Raised("predict", args, "AttributeError", w, NoLog)
           ELSE IF ~dot_ok(A, used.val)
           THEN call' = Raised("predict", args, "ValueError", w, NoLog)
           ELSE call' = Returned("predict", args, y_preds(A, used.val), w, NoLog)
        /\ UNCHANGED <<cls, add_bias, w, hist, inp, thr>>

(***************************************************************************)
(* One instance, called by one caller.                                     *)
(***************************************************************************)
FitX ==
    {IntMat(<<<<1>>, <<2>>, <<3>>>>), IntMat(<<<<1>>, <<1>>>>)}
\* targets of linear regression: one column, a row for each row of X
LinY(X) ==
    {[i \in 1..Rows(X) |-> <<R(2 * X[i][1][1])>>],
     [i \in 1..Rows(X) |-> <<R(i - 1)>>]}
\* targets of logistic regression: one-hot rows over k classes
LogY(X) ==
    {[i \in 1..Rows(X) |-> [j \in 1..k |-> R(IF j = ((i - 1) % k) + 1 THEN 1 ELSE 0)]] :
        k \in {2, 3}}
PredictX == {IntMat(<<<<4>>>>), IntMat(<<<<1, 2>>, <<2, 1>>>>)}
\* the w argument of predict: absent, or a matrix
Overrides ==
    {NoneVal,
     Arr(IntMat(<<<<1>>, <<2>>>>)),
     Arr(IntMat(<<<<0, 1>>, <<1, 0>>, <<2, 2>>>>))}

Construct ==
    /\ cls \in {"LinearRegression", "LogisticRegression"}
    /\ add_bias \in BOOLEAN
    /\ w = IF cls = "LinearRegression" THEN NoneVal ELSE Unset
    /\ call = NoCall
    /\ hist = [fit_called |-> FALSE, fit_ok |-> FALSE]

Init ==
    /\ Construct
    /\ inp = <<>>
    /\ thr = <<>>

LinearFit ==
    \E X \in FitX, analytic \in BOOLEAN,
       oc \in OptimizerClasses \cup {"None"}, kw \in Kwargs :
        \E y \in LinY(X) : LinearRegression_fit(X, y, analytic, oc, kw)

LinearPredict ==
    \E X \in PredictX, ov \in Overrides : LinearRegression_predict(X, ov)

LogisticFit ==
    \E X \in FitX, oc \in OptimizerClasses \cup {"None"}, kw \in Kwargs :
        \E y \in LogY(X) : LogisticRegression_fit(X, y, oc, kw)

LogisticPredict ==
    \E X \in PredictX, ov \in Overrides : LogisticRegression_predict(X, ov)

Next == LinearFit \/ LinearPredict \/ LogisticFit \/ LogisticPredict

Spec == Init /\ [][Next]_vars

(***************************************************************************)
(* Properties of one instance called by one caller.                       *)
(***************************************************************************)
IsFit == call.op = "fit"
IsPredict == call.op = "predict"
GradientPath == cls = "LogisticRegression" \/ ~call.args.analytic_fit
AugmentedArg == Augment(call.args.X, add_bias)

\* C1: predict on an instance whose fit was never called fails and returns
\* no prediction, for both classes and with or without the argument w; a
\* LinearRegression fails on the assertion (for a LogisticRegression any
\* raised error is counted as the failure)
C1_PredictBeforeFitFails ==
    (IsPredict /\ ~hist.fit_called) =>
        /\ call.outcome # "ok"
        /\ call.result = <<>>
        /\ cls = "LinearRegression" => call.outcome = "AssertionError"

\* C4: after a gradient fit that returned, self.w is the value run returned
\* and fit returned the optimizer's w_history as it is after run; the
\* optimizer was constructed once from the keyword arguments and run was
\* called once with the instance's gradient, A, y and zeros of shape
\* (columns(A), 1) (linear) or (columns(A), columns(y)) (logistic)
C4_GradientFitDelegates ==
    (IsFit /\ call.outcome = "ok" /\ GradientPath) =>
        /\ call.log.init = <<call.args.kwargs>>
        /\ Len(call.log.run) = 1
        /\ call.log.run[1] =
            [gradient_fn |-> IF cls = "LinearRegression"
                             THEN "LinearRegression.gradient"
                             ELSE "LogisticRegression.gradient",
             A |-> AugmentedArg,
             y |-> call.args.y,
             w0 |-> zeros(Cols(AugmentedArg),
                          IF cls = "LinearRegression" THEN 1
                          ELSE Cols(call.args.y))]
        /\ Len(call.log.ret) = 1
        /\ w = Arr(call.log.ret[1])
        /\ call.result = call.log.optimizer.w_history

C4_Witness ==
    /\ IsFit /\ call.outcome = "ok" /\ GradientPath
    /\ cls = "LogisticRegression" /\ add_bias
    /\ Cols(call.args.y) = 3
    /\ w # Arr(call.log.run[1].w0)

\* C5: a LinearRegression instance none of whose fit calls has returned, and
\* a LogisticRegression instance whose fit was never called, hold no weights
\* (an attribute never assigned is counted as None)
C5_NoWeightsBeforeFit ==
    /\ (cls = "LinearRegression" /\ ~hist.fit_ok) => ~IsArr(w)
    /\ (cls = "LogisticRegression" /\ ~hist.fit_called) => ~IsArr(w)

\* C6: weights appear only through a fit call and, once there, stay: a
\* predict writes nothing, a failing fit leaves weights in place, and a fit
\* that returns puts its new result in self.w
C6_FittedStaysFitted ==
    /\ IsArr(w) => hist.fit_called
    /\ (~IsArr(call.w_before) /\ IsArr(w)) => IsFit
    /\ IsArr(call.w_before) => IsArr(w)
    /\ IsPredict => w = call.w_before
    /\ (IsFit /\ call.outcome = "ok") =>
          w = Arr(IF GradientPath THEN call.log.ret[1] ELSE call.result)

C6_Witness ==
    /\ IsFit /\ call.outcome = "ok"
    /\ IsArr(call.w_before) /\ w # call.w_before

\* C7: LinearRegression.fit fails on the precondition exactly when
\* analytic_fit is false and optimizer_class is None, then with no optimizer
\* constructed or run and self.w as before; with analytic_fit true no
\* optimizer is constructed or run and the call returns whenever the normal
\* equations can be solved, optimizer_class None included
C7_OptimizerRequiredOnlyForGradientFit ==
    (IsFit /\ cls = "LinearRegression") =>
        /\ call.outcome = "AssertionError" <=>
              (~call.args.analytic_fit /\ call.args.optimizer_class = "None")
        /\ call.outcome = "AssertionError" =>
              (call.log = NoLog /\ w = call.w_before)
        /\ call.args.analytic_fit =>
              /\ call.log = NoLog
              /\ call.outcome = "ok" <=>
                    ~Singular(dot(transpose(AugmentedArg), AugmentedArg))
              /\ call.outcome = "ok" => w = Arr(call.result)

C7_Witness ==
    /\ IsFit /\ cls = "LinearRegression"
    /\ call.outcome = "AssertionError"
    /\ IsArr(w)

\* C10: a LinearRegression.fit call that fails leaves self.w as it was
C10_FailedFitKeepsWeights ==
    (IsFit /\ cls = "LinearRegression" /\ call.outcome # "ok") =>
        w = call.w_before

(***************************************************************************)
(* An analytic fit of noiseless data, then a prediction: the run draws X,  *)
(* the generating weights w_true and the rows X2 to predict, and calls     *)
(* fit(X, A.w_true, analytic_fit=True) and predict(X2).                    *)
(***************************************************************************)
\* a matrix of n rows and one column per function of Fs
Columns(n, Fs) == {[i \in 1..n |-> <<R(f[i])>>] : f \in Fs}
DrawnX ==
    UNION {Columns(n, [1..n -> 1..MaxVal]) : n \in 1..MaxRows} \cup
    {IntMat(<<<<1, 0>>, <<0, 1>>, <<0, 0>>>>),
     IntMat(<<<<1, 1>>, <<2, 2>>, <<3, 3>>, <<1, 2>>>>),
     IntMat(<<<<1, 1>>, <<2, 2>>, <<3, 3>>>>)}
DrawnW(A) == Columns(Cols(A), [1..Cols(A) -> 0..MaxW])
DrawnX2(X) ==
    {<<[j \in 1..Cols(X) |-> R(MaxVal + 1)]>>,
     <<[j \in 1..Cols(X) |-> R(0)], [j \in 1..Cols(X) |-> R(j)]>>}

InitAnalytic ==
    /\ Construct
    /\ cls = "LinearRegression"
    /\ \E X \in DrawnX :
         \E w_true \in DrawnW(Augment(X, add_bias)), X2 \in DrawnX2(X) :
            inp = [X |-> X, w_true |-> w_true,
                   y |-> dot(Augment(X, add_bias), w_true), X2 |-> X2]
    /\ thr = <<>>

AnalyticFitDrawn ==
    /\ call.op = "none"
    /\ \E oc \in {"None", "GradientDescent"}, kw \in Kwargs :
          LinearRegression_fit(inp.X, inp.y, TRUE, oc, kw)

PredictDrawn ==
    /\ IsFit
    /\ LinearRegression_predict(inp.X2, NoneVal)

NextAnalytic == AnalyticFitDrawn \/ PredictDrawn

SpecAnalytic == InitAnalytic /\ [][NextAnalytic]_vars

Solvable ==
    LET A == Augment(inp.X, add_bias) IN ~Singular(dot(transpose(A), A))

\* C3: when y = A.w_true and AtA is invertible, fit(X, y, analytic_fit=True)
\* stores w_true and returns that stored w, and a predict(X2) that follows
\* returns A2.w_true; X = [[1],[2],[3]], y = [[2],[4],[6]] with the bias
\* gives w = [0, 2] and predict([[4]]) = [8]
C3_AnalyticFitRecovers ==
    /\ (IsFit /\ Solvable) =>
          /\ call.outcome = "ok"
          /\ w = Arr(inp.w_true)
          /\ call.result = w.val
    /\ (IsPredict /\ Solvable) =>
          /\ call.outcome = "ok"
          /\ call.result = dot(Augment(inp.X2, add_bias), inp.w_true)
    /\ (add_bias /\ inp.X = IntMat(<<<<1>>, <<2>>, <<3>>>>)
                 /\ inp.y = IntMat(<<<<2>>, <<4>>, <<6>>>>)) =>
          /\ IsFit => w = Arr(IntMat(<<<<0>>, <<2>>>>))
          /\ (IsPredict /\ inp.X2 = IntMat(<<<<4>>>>)) =>
                call.result = IntMat(<<<<8>>>>)

C3_Witness ==
    /\ IsPredict /\ add_bias
    /\ inp.X = IntMat(<<<<1>>, <<2>>, <<3>>>>)
    /\ inp.y = IntMat(<<<<2>>, <<4>>, <<6>>>>)
    /\ inp.X2 = IntMat(<<<<4>>>>)
    /\ w = Arr(IntMat(<<<<0>>, <<2>>>>))
    /\ call.result = IntMat(<<<<8>>>>)

(***************************************************************************)
(* The pure methods cost_fn and gradient of LinearRegression, one call on  *)
(* drawn arguments in each run.                                            *)
(***************************************************************************)
\* w with h added to its j-th component
Shifted(w_, j, h) ==
    [i \in 1..Rows(w_) |-> <<IF i = j THEN RAdd(w_[i][1], R(h)) ELSE w_[i][1]>>]

InitGrad ==
    /\ Construct
    /\ cls = "LinearRegression"
    /\ add_bias
    /\ \E n \in 1..MaxRows, f \in 1..2 :
         \E X \in {[i \in 1..n |-> [j \in 1..f |-> R(g[i] + j - 1)]] :
                      g \in [1..n -> 0..MaxW]},
            y \in Columns(n, [1..n -> 0..1]),
            w_ \in Columns(f, [1..f -> 0..1]) :
            inp = [X |-> X, y |-> y, w |-> w_]
    /\ thr = <<>>

GradientCall ==
    /\ call.op = "none"
    /\ call' = Returned("gradient", inp, gradient(inp.X, inp.y, inp.w), w, NoLog)
    /\ UNCHANGED <<cls, add_bias, w, hist, inp, thr>>

CostCall ==
    /\ call.op = "none"
    /\ \E j \in 1..Rows(inp.w), h \in (-MaxStep)..MaxStep :
          LET args == [inp EXCEPT !.w = Shifted(inp.w, j, h)]
          IN  call' = Returned("cost_fn", args,
                               cost_fn(args.X, args.y, args.w), w, NoLog)
    /\ UNCHANGED <<cls, add_bias, w, hist, inp, thr>>

NextGrad == GradientCall \/ CostCall

SpecGrad == InitGrad /\ [][NextGrad]_vars

\* the central difference of cost_fn in component j with step h
CentralDifference(X, y, w_, j, h) ==
    RDiv(RSub(cost_fn(X, y, Shifted(w_, j, h)),
              cost_fn(X, y, Shifted(w_, j, -h))),
         R(2 * h))

\* C2: gradient(X, y, w) is the derivative of cost_fn(X, y, w) in w: each
\* component equals the central difference of cost_fn, for every step h
C2_GradientIsDerivativeOfCost ==
    call.op = "gradient" =>
        \A j \in 1..Rows(inp.w), h \in 1..MaxStep :
            call.result[j][1] = CentralDifference(inp.X, inp.y, inp.w, j, h)

(***************************************************************************)
(* one_hot on a drawn matrix, and LogisticRegression.predict with drawn    *)
(* rows and weights.                                                       *)
(***************************************************************************)
MaxCells == 4

Halves == {Rat(k, 2) : k \in 0..MaxW}
DrawnY ==
    UNION {[1..s[1] -> [1..s[2] -> Halves]] :
              s \in {t \in (1..MaxCells) \X (1..MaxCells) : t[1] * t[2] <= MaxCells}}
DrawnOverrides(A) ==
    {Arr([i \in 1..Cols(A) |-> [j \in 1..k |-> R(IF j = i THEN 2 ELSE 1 - j)]]) :
        k \in 1..3}

InitOneHot ==
    /\ Construct
    /\ cls = "LogisticRegression"
    /\ \E Y \in DrawnY : inp = [Y |-> Y]
    /\ thr = <<>>

OneHotCall ==
    /\ call' = Returned("one_hot", [y |-> inp.Y], one_hot(inp.Y), w, NoLog)
    /\ UNCHANGED <<cls, add_bias, w, hist, inp, thr>>

PredictOverride ==
    \E ov \in DrawnOverrides(Augment(inp.Y, add_bias)) :
        LogisticRegression_predict(inp.Y, ov)

NextOneHot == OneHotCall \/ PredictOverride

SpecOneHot == InitOneHot /\ [][NextOneHot]_vars

\* row holds one 1, at index p, and 0 elsewhere
OneAt(row, p) == \A j \in 1..Len(row) : row[j] = IF j = p THEN 1 ELSE 0
\* p is the lowest index at which row attains its maximum
FirstMax(row, p) ==
    /\ \A j \in 1..Len(row) : ~RGreater(row[j], row[p])
    /\ \A j \in 1..(p - 1) : RGreater(row[p], row[j])

\* C9: one_hot(Y) has the shape of Y and each of its rows holds exactly one
\* 1 and 0 elsewhere, the 1 at the lowest index at which the row of Y
\* attains its maximum ([0.5, 0.5] gives [1, 0]); every row of a
\* LogisticRegression.predict result holds exactly one 1
C9_OneHotAtFirstMaximum ==
    /\ call.op = "one_hot" =>
          /\ Rows(call.result) = Rows(inp.Y)
          /\ \A i \in 1..Rows(inp.Y) :
                /\ Len(call.result[i]) = Len(inp.Y[i])
                /\ \E p \in 1..Len(inp.Y[i]) :
                      OneAt(call.result[i], p) /\ FirstMax(inp.Y[i], p)
          /\ inp.Y = <<<<Rat(1, 2), Rat(1, 2)>>>> => call.result = <<<<1, 0>>>>
    /\ (IsPredict /\ call.outcome = "ok") =>
          \A i \in 1..Rows(call.result) :
              \E p \in 1..Len(call.result[i]) : OneAt(call.result[i], p)

C9_Witness ==
    /\ call.op = "one_hot"
    /\ inp.Y = <<<<R(0), Rat(1, 2)>>, <<R(1), R(1)>>>>
    /\ call.result = <<<<0, 1>>, <<1, 0>>>>

(***************************************************************************)
(* One instance shared by two threads: one calls fit, the other predict.   *)
(* A step is one statement that reads or writes self.w, with the local     *)
(* statements before it.                                                   *)
(***************************************************************************)
Idle ==
    [pc |-> "idle", args |-> <<>>, optimizer |-> NoneVal, ret |-> <<>>,
     outcome |-> "none", result |-> <<>>]
PIdle ==
    [pc |-> "idle", args |-> <<>>, seen |-> NoneVal, overlap |-> FALSE,
     outcome |-> "none", result |-> <<>>]
Running(frame) == frame.pc \notin {"idle", "done"}
FitDone(outcome, result) ==
    [thr.f EXCEPT !.pc = "done", !.outcome = outcome, !.result = result]
PredictDone(outcome, result) ==
    [thr.p EXCEPT !.pc = "done", !.outcome = outcome, !.result = result]
FA == Augment(thr.f.args.X, add_bias)
PA == Augment(thr.p.args.X, add_bias)

ConcX == IntMat(<<<<1>>, <<2>>, <<3>>>>)
ConcY ==
    IF cls = "LinearRegression" THEN IntMat(<<<<2>>, <<4>>, <<6>>>>)
    ELSE IntMat(<<<<1, 0>>, <<0, 1>>, <<1, 0>>>>)
ConcOverrides ==
    {NoneVal,
     Arr([i \in 1..Cols(Augment(ConcX, add_bias)) |->
            [j \in 1..Cols(ConcY) |-> R(i + j)]])}

InitConc ==
    /\ Construct
    /\ inp = <<>>
    /\ thr = [f |-> Idle, p |-> PIdle]

\* fit is entered: lines 46-50 (linear), 117-119 (logistic)
FitCall ==
    /\ ~Running(thr.f)
    /\ \E analytic \in BOOLEAN, oc \in OptimizerClasses \cup {"None"}, kw \in Kwargs :
          /\ analytic => cls = "LinearRegression"
          /\ thr' = [f |-> [Idle EXCEPT
                              !.pc = IF analytic THEN "L51"
                                     ELSE IF cls = "LinearRegression" THEN "L54"
                                     ELSE "write_w0",
                              !.args = [X |-> ConcX, y |-> ConcY,
                                        analytic_fit |-> analytic,
                                        optimizer_class |-> oc, kwargs |-> kw]],
                     p |-> [thr.p EXCEPT !.overlap = @ \/ Running(thr.p)]]
    /\ hist' = [hist EXCEPT !.fit_called = TRUE]
    /\ UNCHANGED <<cls, add_bias, w, call, inp>>

\* line 51: self.w = self.analytic_fit(A, y)
FitAnalytic ==
    /\ thr.f.pc = "L51"
    /\ IF Singular(dot(transpose(FA), FA))
       THEN /\ thr' = [thr EXCEPT !.f = FitDone("LinAlgError", <<>>)]
            /\ w' = w
       ELSE /\ thr' = [thr EXCEPT !.f.pc = "L52"]
            /\ w' = Arr(analytic_fit(FA, thr.f.args.y))
    /\ UNCHANGED <<cls, add_bias, call, hist, inp>>

\* line 52: return self.w
FitReturnW ==
    /\ thr.f.pc = "L52"
    /\ thr' = [thr EXCEPT !.f = FitDone("ok", w.val)]
    /\ hist' = [hist EXCEPT !.fit_ok = TRUE]
    /\ UNCHANGED <<cls, add_bias, w, call, inp>>

\* line 54
FitAssert ==
    /\ thr.f.pc = "L54"
    /\ thr' = IF optimizer_given(thr.f.args.optimizer_class)
              THEN [thr EXCEPT !.f.pc = "write_w0"]
              ELSE [thr EXCEPT !.f = FitDone("AssertionError", <<>>)]
    /\ UNCHANGED <<cls, add_bias, w, call, hist, inp>>

\* line 56, line 121
FitWriteZeros ==
    /\ thr.f.pc = "write_w0"
    /\ w' = IF cls = "LinearRegression" THEN LinearRegression_w0(FA)
            ELSE LogisticRegression_w0(FA, thr.f.args.y)
    /\ thr' = [thr EXCEPT !.f.pc = "construct"]
    /\ UNCHANGED <<cls, add_bias, call, hist, inp>>

\* line 57, line 122
FitConstruct ==
    /\ thr.f.pc = "construct"
    /\ thr' = IF thr.f.args.optimizer_class = "None"
              THEN [thr EXCEPT !.f = FitDone("TypeError", <<>>)]
              ELSE IF thr.f.args.optimizer_class = "RaisesInInit"
              THEN [thr EXCEPT !.f = FitDone("OptimizerError", <<>>)]
              ELSE [thr EXCEPT !.f.pc = "run", !.f.optimizer = NewOptimizer]
    /\ UNCHANGED <<cls, add_bias, w, call, hist, inp>>

\* lines 58, 123: optimizer.run(self.gradient, A, y, self.w), self.w read here
FitRun ==
    /\ thr.f.pc = "run"
    /\ IF thr.f.args.optimizer_class = "RaisesInRun"
       THEN thr' = [thr EXCEPT !.f = FitDone("OptimizerError", <<>>)]
       ELSE \E r \in OptRuns(w.val) :
               thr' = [thr EXCEPT !.f.pc = "store", !.f.ret = r.w_final,
                                  !.f.optimizer = [w_history |-> r.w_history]]
    /\ UNCHANGED <<cls, add_bias, w, call, hist, inp>>

\* lines 58, 123: self.w = the value run returned
FitStore ==
    /\ thr.f.pc = "store"
    /\ w' = Arr(thr.f.ret)
    /\ thr' = [thr EXCEPT !.f.pc = "return"]
    /\ UNCHANGED <<cls, add_bias, call, hist, inp>>

\* lines 60, 125
FitReturnHistory ==
    /\ thr.f.pc = "return"
    /\ thr' = [thr EXCEPT !.f = FitDone("ok", fit_return(thr.f.optimizer))]
    /\ hist' = [hist EXCEPT !.fit_ok = TRUE]
    /\ UNCHANGED <<cls, add_bias, w, call, inp>>

\* predict is entered
PredictCall ==
    /\ ~Running(thr.p)
    /\ \E ov \in ConcOverrides :
          thr' = [thr EXCEPT !.p =
                    [PIdle EXCEPT
                       !.pc = IF cls = "LinearRegression" THEN "L63" ELSE "branch",
                       !.args = [X |-> IntMat(<<<<4>>>>), w |-> ov],
                       !.overlap = Running(thr.f)]]
    /\ UNCHANGED <<cls, add_bias, w, call, hist, inp>>

\* line 63
PredictAssert ==
    /\ thr.p.pc = "L63"
    /\ thr' = IF predict_precondition(w)
              THEN [thr EXCEPT !.p.pc = "branch", !.p.seen = w]
              ELSE [thr EXCEPT !.p = [PredictDone("AssertionError", <<>>)
                                        EXCEPT !.seen = w]]
    /\ UNCHANGED <<cls, add_bias, w, call, hist, inp>>

\* lines 64-71, 128-137
PredictReturn ==
    /\ thr.p.pc = "branch"
    /\ LET used == weights_used(w, thr.p.args.w)
       IN  thr' = IF used = Unset
                  THEN [thr EXCEPT !.p = PredictDone("AttributeError", <<>>)]
                  ELSE IF ~dot_ok(PA, used.val)
                  THEN [thr EXCEPT !.p = PredictDone("ValueError", <<>>)]
                  ELSE [thr EXCEPT !.p = PredictDone("ok",
                          IF cls = "LinearRegression" THEN dot(PA, used.val)
                          ELSE y_preds(PA, used.val))]
    /\ UNCHANGED <<cls, add_bias, w, call, hist, inp>>

FitStep ==
    \/ FitCall \/ FitAnalytic \/ FitReturnW \/ FitAssert \/ FitWriteZeros
    \/ FitConstruct \/ FitRun \/ FitStore \/ FitReturnHistory
PredictStep == PredictCall \/ PredictAssert \/ PredictReturn

NextConc == FitStep \/ PredictStep

SpecConc == InitConc /\ [][NextConc]_vars

OverridePrediction ==
    IF cls = "LinearRegression" THEN dot(PA, thr.p.args.w.val)
    ELSE y_preds(PA, thr.p.args.w.val)
ConcurrentOverridePredict ==
    thr.p.pc = "done" /\ thr.p.args.w # NoneVal /\ thr.p.overlap

\* C8 as stated: a predict with the argument w that ran while a fit of the
\* same instance was running returns the prediction computed from that w,
\* whatever the interleaving
C8_OverridePredictSameUnderEveryInterleaving ==
    ConcurrentOverridePredict =>
        (thr.p.outcome = "ok" /\ thr.p.result = OverridePrediction)

\* C8 as amended: such a predict of a LogisticRegression returns the
\* prediction computed from its argument w; one of a LinearRegression does
\* so when self.w was set when line 63 read it and fails on the precondition
\* when it was still None, as during the first fit before its first write
C8_OutcomeByStoredWeightsAtCheck ==
    ConcurrentOverridePredict =>
        IF cls = "LinearRegression" /\ thr.p.seen = NoneVal
        THEN thr.p.outcome = "AssertionError" /\ thr.p.result = <<>>
        ELSE thr.p.outcome = "ok" /\ thr.p.result = OverridePrediction

C8_Witness ==
    /\ ConcurrentOverridePredict
    /\ cls = "LinearRegression"
    /\ thr.p.outcome = "ok"
    /\ thr.f.pc = "store"
    /\ ~hist.fit_ok

\* C8, amended: no step of predict writes self.w, and the outcome of a
\* predict with the argument w that ran while a fit was running is the one
\* told above
C8_OverridePredictUnlessFirstFitPending ==
    /\ []C8_OutcomeByStoredWeightsAtCheck
    /\ [][PredictStep => w' = w]_vars

====
